---- MODULE Spec2Model ----
(***************************************************************************)
(* Edge API Data Downloader (src/Edge_API.py): a Streamlit script.  Every  *)
(* user interaction (login submit, logout click, widget edit, fetch click) *)
(* runs the script once from top to bottom against the session state and   *)
(* the widget values; what the run shows, logs and sends is the page.      *)
(* One action models one such interaction together with the script run it  *)
(* triggers.                                                               *)
(***************************************************************************)
EXTENDS Integers, Sequences, FiniteSets, TLC

VARIABLES
    secrets,                 \* st.secrets: the deployment's secrets.toml
    logged_in,               \* st.session_state.logged_in
    selected_endpoint_name,  \* the endpoint selectbox
    device_serialid,         \* the device id text input
    start_date,              \* the start date picker (days since 1970-01-01)
    end_date,                \* the end date picker (days since 1970-01-01)
    granularity,             \* the granularity selectbox ("" when not rendered)
    event,                   \* the interaction that produced the current page
    errors_shown,            \* st.error calls of the last script run, in order
    log,                     \* log_error calls of the last script run, in order
    notices,                 \* st.info / st.success calls of the fetch block
    requests,                \* requests.get calls of the last script run
    responses,               \* the HTTP response received by the last run
    download                 \* st.download_button was rendered by the last run

vars == <<secrets, logged_in, selected_endpoint_name, device_serialid,
          start_date, end_date, granularity, event, errors_shown, log,
          notices, requests, responses, download>>

----------------------------------------------------------------------------
(* Bounds of the model *)

\* datetime.now().date() as a day number (19723 is 2024-01-01)
Today == 19723
\* the start date picker offers Today .. Today + StartSpan, the end date
\* picker Today .. Today + EndSpan: spans of -1 .. 8 days
StartSpan == 1
EndSpan == 8

StartDates == Today .. (Today + StartSpan)
EndDates == Today .. (Today + EndSpan)

\* what a user types into the device id box
DeviceIds == {"EXXXXXXXXXXXX", "", "E1"}

\* what a user types into the login form
UsernameInputs == {"", "alice", "bob", "bo", "eve"}
PasswordInputs == {"", "pw1", "pw2", "pw", "bad"}

----------------------------------------------------------------------------
(* Python values *)

EmptyDict == [k \in {} |-> ""]

\* a TOML value of secrets.toml: an array of strings, a string, or a number
TomlList(items) == [kind |-> "list", items |-> items, text |-> ""]
TomlStr(text) == [kind |-> "str", items |-> {}, text |-> text]
TomlInt == [kind |-> "int", items |-> {}, text |-> ""]

\* pieces of the strings the model's secrets hold, for the substring test
Fragments == {"", "b", "o", "bo", "ob", "bob", "p", "w", "1", "pw", "w1", "pw1"}

\* Python `x in v` on a value that supports it: membership in a list,
\* substring of a string
PyIn(x, v) ==
    IF v.kind = "list" THEN x \in v.items
    ELSE \E a \in Fragments, b \in Fragments : a \o x \o b = v.text

\* Python `x in v` raises TypeError on a value that is no container
PyInRaises(v) == v.kind = "int"

----------------------------------------------------------------------------
(* st.secrets *)

\* a section of secrets.toml is the set of keys it holds and their values;
\* the value of a key the section does not hold is never read
Absent == TomlInt

CredentialConfigs ==
    { [keys |-> {"usernames", "passwords"},
       usernames |-> TomlList({"alice", "bob"}),
       passwords |-> TomlList({"pw1", "pw2"})],
      [keys |-> {"usernames", "passwords"},
       usernames |-> TomlStr("bob"), passwords |-> TomlStr("pw1")],
      [keys |-> {"usernames", "passwords"},
       usernames |-> TomlInt, passwords |-> TomlList({"pw1", "pw2"})],
      [keys |-> {"usernames", "passwords"},
       usernames |-> TomlList({"alice", "bob"}), passwords |-> TomlInt],
      [keys |-> {"passwords"},
       usernames |-> Absent, passwords |-> TomlList({"pw1", "pw2"})],
      [keys |-> {"usernames"},
       usernames |-> TomlList({"alice", "bob"}), passwords |-> Absent] }

EdgeApiConfigs ==
    { [keys |-> {"api_key"}, api_key |-> "k-123"],
      [keys |-> {}, api_key |-> ""] }

SecretsConfigs ==
    { [sections |-> ss, credentials |-> c, edgeapi |-> e] :
        ss \in SUBSET {"credentials", "edgeapi"},
        c \in CredentialConfigs, e \in EdgeApiConfigs }

\* a section that is absent has no content: one representative per absence
WellFormedSecrets ==
    { s \in SecretsConfigs :
        /\ "credentials" \notin s.sections =>
              s.credentials.keys = {"usernames"}
        /\ "edgeapi" \notin s.sections => s.edgeapi.keys = {} }

----------------------------------------------------------------------------
(* log_error *)

log_error(error_message) ==
    [timestamp |-> "%Y-%m-%d %H:%M:%S", level |-> "ERROR",
     message |-> error_message]

\* the log entries of a run that logs every message of a sequence
LogAll(messages) == [i \in 1 .. Len(messages) |-> log_error(messages[i])]

----------------------------------------------------------------------------
(* Login form handler *)

\* `username in usernames and password in passwords`, left to right with
\* short circuit: "raises", "true" or "false"
CredentialCheck(username, password, cred) ==
    IF PyInRaises(cred.usernames) THEN "raises"
    ELSE IF ~PyIn(username, cred.usernames) THEN "false"
    ELSE IF PyInRaises(cred.passwords) THEN "raises"
    ELSE IF PyIn(password, cred.passwords) THEN "true" ELSE "false"

ReadSecretsError == "An error occurred while reading secrets: argument of type 'int' is not iterable"

\* the outcome of one login submission: the new flag, the errors shown and
\* the log entries written
LoginOutcome(username, password, s) ==
    IF "credentials" \notin s.sections
    THEN [logged_in |-> FALSE,
          errors |-> <<"Missing [credentials] section in your secrets.toml file.">>,
          log |-> <<>>]
    ELSE IF \/ "usernames" \notin s.credentials.keys
            \/ "passwords" \notin s.credentials.keys
    THEN [logged_in |-> FALSE,
          errors |-> <<"Missing 'usernames' or 'passwords' under [credentials] in your secrets.toml file.">>,
          log |-> <<>>]
    ELSE LET check == CredentialCheck(username, password, s.credentials) IN
         IF check = "true"
         THEN [logged_in |-> TRUE, errors |-> <<>>, log |-> <<>>]
         ELSE IF check = "false"
         THEN [logged_in |-> FALSE,
               errors |-> <<"Incorrect username or password">>,
               log |-> <<>>]
         ELSE [logged_in |-> FALSE,
               errors |-> <<ReadSecretsError>>,
               log |-> <<log_error(ReadSecretsError)>>]

----------------------------------------------------------------------------
(* Endpoint registry *)

endpoints ==
    [name \in {"Devices", "Events Interval", "Power Quality Live",
               "Power Quality Interval", "Power Quality Aggregated"} |->
       CASE name = "Devices" ->
              [path |-> "/devices",
               params |-> {"device_serialid"},
               required_params |-> <<>>]
         [] name = "Events Interval" ->
              [path |-> "/events/interval/",
               params |-> {"device_serialid", "dates"},
               required_params |-> <<"device_serialid">>]
         [] name = "Power Quality Live" ->
              [path |-> "/powerquality/live/",
               params |-> {"device_serialid"},
               required_params |-> <<"device_serialid">>]
         [] name = "Power Quality Interval" ->
              [path |-> "/powerquality/interval/",
               params |-> {"device_serialid", "dates", "granularity"},
               required_params |-> <<"device_serialid", "granularity">>]
         [] name = "Power Quality Aggregated" ->
              [path |-> "/powerquality/aggregated/",
               params |-> {"device_serialid", "dates", "granularity"},
               required_params |-> <<"device_serialid", "granularity">>]]

EndpointNames == DOMAIN endpoints

Range(seq) == {seq[i] : i \in DOMAIN seq}

base_url == "https://v3.edgezeroapi.com/pienergy"

\* the label of the device id text input; a widget with another label is
\* another widget
DeviceLabel(name) ==
    IF "device_serialid" \notin Range(endpoints[name].required_params)
    THEN "Device Serial ID (Optional)" ELSE "Device Serial ID"

DefaultDeviceId == "EXXXXXXXXXXXX"

----------------------------------------------------------------------------
(* Parameter form builder *)

\* variant: a "/" is put between the path and the device id
full_url_extra_slash(name, device) ==
    IF name \notin {"Devices"}
    THEN base_url \o endpoints[name].path \o "/" \o device
    ELSE base_url \o endpoints[name].path

\* full_url: every endpoint accepts device_serialid, so the branch that
\* builds the URL is always taken
full_url(name, device) ==
    IF "device_serialid" \in endpoints[name].params
    THEN IF name \notin {"Devices"}
         THEN base_url \o endpoints[name].path \o device
         ELSE base_url \o endpoints[name].path
    ELSE ""

\* params['device_serialid']: only for "Devices", only when non-empty
DeviceParams(name, device) ==
    IF /\ "device_serialid" \in endpoints[name].params
       /\ name \in {"Devices"}
       /\ device # ""
    THEN "device_serialid" :> device
    ELSE EmptyDict

\* seconds of a day, and time.max = 23:59:59.999999
SecondsPerDay == 86400
TimeMaxSeconds == 86399
TimeMaxMicros == 999999

\* datetime.combine(date, t, tzinfo=utc).timestamp(): the float's whole
\* seconds (floor) and its microseconds.  Within the pickers' range (ten
\* years around today) the double holds the microseconds without rounding
\* up to the next second.
Timestamp(date, seconds, micros) ==
    [sec |-> date * SecondsPerDay + seconds, usec |-> micros]

\* int(float): truncation toward zero
PyInt(ts) == IF ts.sec >= 0 \/ ts.usec = 0 THEN ts.sec ELSE ts.sec + 1

starttime(date) == PyInt(Timestamp(date, 0, 0))

\* variant: round() instead of int()
endtime_rounded(date) ==
    LET ts == Timestamp(date, TimeMaxSeconds, TimeMaxMicros) IN
    IF 2 * ts.usec >= 1000000 THEN ts.sec + 1 ELSE ts.sec

endtime(date) == PyInt(Timestamp(date, TimeMaxSeconds, TimeMaxMicros))

DateParams(name, start, end) ==
    IF "dates" \in endpoints[name].params
    THEN ("starttime" :> starttime(start)) @@ ("endtime" :> endtime(end))
    ELSE EmptyDict

\* (end_date - start_date).days
date_range_days(start, end) == end - start

\* variant: the middle range ends at 6 days
granularity_options_lt7(days) ==
    IF days < 1 THEN <<"1m", "5m", "15m", "1h", "daily">>
    ELSE IF 1 <= days /\ days < 7 THEN <<"15m", "1h", "daily">>
    ELSE <<"1h", "daily">>

granularity_options(days) ==
    IF days < 1 THEN <<"1m", "5m", "15m", "1h", "daily">>
    ELSE IF 1 <= days /\ days <= 7 THEN <<"15m", "1h", "daily">>
    ELSE <<"1h", "daily">>

\* the granularity selectbox is rendered when the endpoint accepts
\* granularity and both date pickers were rendered in this run
GranularityRendered(name) ==
    /\ "granularity" \in endpoints[name].params
    /\ "dates" \in endpoints[name].params

\* st.selectbox(label, options): a selectbox whose options are those of the
\* previous run keeps the user's choice; one with other options is another
\* widget and returns its first option
Selectbox(options, previous_options, previous_value) ==
    IF options = previous_options /\ previous_value \in Range(options)
    THEN previous_value ELSE options[1]

GranularityParams(name, gran) ==
    IF GranularityRendered(name) THEN "granularity" :> gran ELSE EmptyDict

\* the query map of a run
params(name, device, start, end, gran) ==
    DeviceParams(name, device) @@ DateParams(name, start, end)
        @@ GranularityParams(name, gran)

----------------------------------------------------------------------------
(* The remote API: what a GET request may come back with *)

\* a response body: text that is not JSON, or a JSON object (its fields),
\* array (its number of records) or scalar (its value)
TextBody(text) ==
    [kind |-> "text", fields |-> EmptyDict, len |-> 0, text |-> text]
ObjectBody(fields, text) ==
    [kind |-> "object", fields |-> fields, len |-> 0, text |-> text]
ArrayBody(len, text) ==
    [kind |-> "array", fields |-> EmptyDict, len |-> len, text |-> text]
ScalarBody(value, text) ==
    [kind |-> "scalar", fields |-> EmptyDict, len |-> value, text |-> text]

Bodies ==
    { TextBody("<html>Bad Gateway</html>"),
      ObjectBody(("error-code" :> "4") @@ ("message" :> "no device"),
                 "{error-code: 4, message: no device}"),
      ObjectBody("message" :> "bad key", "{message: bad key}"),
      ObjectBody("serial" :> "E1", "{serial: E1}"),
      ObjectBody(EmptyDict, "{}"),
      ArrayBody(1, "[{serial: E1}]"),
      ArrayBody(0, "[]"),
      ScalarBody(5, "5") }

StatusCodes == {200, 300, 401, 500}

Responses == [status : StatusCodes, body : Bodies]

\* what requests.get returns or raises: <<>> is a connection failure
\* (requests.exceptions.ConnectionError), <<r>> the response r
Outcomes == {<<>>} \cup {<<r>> : r \in Responses}

\* response.raise_for_status() raises HTTPError on 4xx and 5xx
RaisesForStatus(status) == 400 <= status /\ status < 600

\* str(e) of the HTTPError
HTTPErrorText(status, url) ==
    ToString(status)
      \o (IF status < 500 THEN " Client Error" ELSE " Server Error")
      \o " for url: " \o url

\* Python truthiness of the decoded JSON value (`not data`)
Truthy(body) ==
    CASE body.kind = "object" -> DOMAIN body.fields # {}
      [] body.kind = "array" -> body.len > 0
      [] body.kind = "scalar" -> body.len # 0
      [] OTHER -> FALSE

\* pd.json_normalize accepts a dict or a list of dicts and raises
\* NotImplementedError on a scalar
Normalizable(body) == body.kind \in {"object", "array"}

----------------------------------------------------------------------------
(* Fetch click *)

\* what one script run of the fetch block produces
Page(errors, logged, infos, sent, received, offered) ==
    [errors |-> errors, log |-> logged, notices |-> infos,
     requests |-> sent, responses |-> received, download |-> offered]

MissingDeviceError == "Device Serial ID is a required parameter for this endpoint."

\* variant: the loop finds nothing missing
ValidationErrors_none(name, device) == <<>>

\* the validation loop: one error per required parameter it finds missing
ValidationErrors(name, device) ==
    LET required == endpoints[name].required_params
        hit(param) == param = "device_serialid" /\ device = ""
    IN [i \in 1 .. Cardinality({j \in DOMAIN required : hit(required[j])})
          |-> MissingDeviceError]

\* variant: only the section is looked for
ApiKeyMissing_section_only(s) == "edgeapi" \notin s.sections

\* `"edgeapi" not in st.secrets or "api_key" not in st.secrets["edgeapi"]`
ApiKeyMissing(s) ==
    "edgeapi" \notin s.sections \/ "api_key" \notin s.edgeapi.keys

ApiKeyError == "API Key not found in Streamlit secrets."

\* except requests.exceptions.HTTPError
HTTPErrorPage(request, response) ==
    LET error_msg == "HTTP Error: "
                        \o HTTPErrorText(response.status, request.url)
        body == response.body
        second ==
            IF body.kind = "text"
            THEN <<"API Response: " \o body.text>>       \* JSONDecodeError
            ELSE IF body.kind = "object"
            THEN <<"API Response: " \o
                     (IF "message" \in DOMAIN body.fields
                      THEN body.fields["message"] ELSE body.text)>>
            ELSE <<>>           \* .get on a list or scalar: except: pass
    IN Page(<<error_msg>> \o second, LogAll(<<error_msg>> \o second),
            <<>>, <<request>>, <<response>>, FALSE)

\* except Exception
UnexpectedErrorPage(request, received, infos, text) ==
    LET error_msg == "An unexpected error occurred: " \o text IN
    Page(<<error_msg>>, <<log_error(error_msg)>>, infos,
         <<request>>, received, FALSE)

\* the body of the try block after requests.get returned
ResponsePage(request, response) ==
    LET body == response.body IN
    IF RaisesForStatus(response.status)
    THEN HTTPErrorPage(request, response)
    ELSE IF body.kind = "text"
    THEN UnexpectedErrorPage(request, <<response>>, <<>>,
                             "Expecting value: line 1 column 1 (char 0)")
    ELSE IF body.kind = "object" /\ "error-code" \in DOMAIN body.fields
    THEN LET error_msg == "API Error " \o body.fields["error-code"] \o ": "
                            \o (IF "message" \in DOMAIN body.fields
                                THEN body.fields["message"] ELSE "None")
         IN Page(<<error_msg>>, <<log_error(error_msg)>>, <<>>,
                 <<request>>, <<response>>, FALSE)
    ELSE IF ~Truthy(body)
    THEN Page(<<>>, <<>>,
              <<"The API returned no data for the given parameters.">>,
              <<request>>, <<response>>, FALSE)
    ELSE IF ~Normalizable(body)
    THEN UnexpectedErrorPage(request, <<response>>,
                             <<"Data fetched successfully!">>,
                             "NotImplementedError")
    ELSE Page(<<>>, <<>>, <<"Data fetched successfully!">>,
              <<request>>, <<response>>, TRUE)

\* the whole `if st.button(...)` block, given what the API answers
FetchPage(s, name, device, start, end, gran, outcome) ==
    LET errors == ValidationErrors(name, device) IN
    IF errors # <<>>
    THEN Page(errors, LogAll(errors), <<>>, <<>>, <<>>, FALSE)
    ELSE IF ApiKeyMissing(s)
    THEN Page(<<ApiKeyError>>, <<log_error(ApiKeyError)>>, <<>>, <<>>, <<>>,
              FALSE)                                        \* st.stop()
    ELSE LET request ==
                [url |-> full_url(name, device),
                 headers |-> ("X-Api-Key" :> s.edgeapi.api_key)
                               @@ ("accept" :> "*/*"),
                 params |-> params(name, device, start, end, gran)]
         IN IF outcome = <<>>
            THEN UnexpectedErrorPage(request, <<>>, <<>>,
                                     "Connection refused")
            ELSE ResponsePage(request, outcome[1])

----------------------------------------------------------------------------
(* The session *)

Event(name, username, password) ==
    [name |-> name, username |-> username, password |-> password]

\* a run that reaches no st.error, log_error, request or download
ClearPage ==
    /\ errors_shown' = <<>>
    /\ log' = <<>>
    /\ notices' = <<>>
    /\ requests' = <<>>
    /\ responses' = <<>>
    /\ download' = FALSE

\* widgets that are not rendered lose their state: the next time they are
\* rendered they hold their defaults
DefaultForm ==
    /\ selected_endpoint_name' = "Devices"
    /\ device_serialid' = DefaultDeviceId
    /\ start_date' = Today
    /\ end_date' = Today
    /\ granularity' = ""

Init ==
    /\ secrets \in WellFormedSecrets
    /\ logged_in = FALSE
    /\ selected_endpoint_name = "Devices"
    /\ device_serialid = DefaultDeviceId
    /\ start_date = Today
    /\ end_date = Today
    /\ granularity = ""
    /\ event = Event("start", "", "")
    /\ errors_shown = <<>>
    /\ log = <<>>
    /\ notices = <<>>
    /\ requests = <<>>
    /\ responses = <<>>
    /\ download = FALSE

\* `if not st.session_state.logged_in:` the login form is rendered
LoginRendered == ~logged_in

\* variant: the main application is rendered whatever the flag
MainAppRendered_always == TRUE

\* `if st.session_state.logged_in:` the main application is rendered
MainAppRendered == logged_in

\* the options the granularity selectbox had in the current page
CurrentOptions ==
    IF GranularityRendered(selected_endpoint_name)
    THEN granularity_options(date_range_days(start_date, end_date))
    ELSE <<>>

\* the granularity selectbox of a run over the given endpoint and dates
NextGranularity(name, start, end) ==
    IF GranularityRendered(name)
    THEN Selectbox(granularity_options(date_range_days(start, end)),
                   CurrentOptions, granularity)
    ELSE ""

\* the login form is submitted with a username and a password; on success
\* st.rerun() ends the run (its exception is no Exception, so the handler of
\* the try block does not see it) and the main application is rendered
LoginSubmit ==
    /\ LoginRendered
    /\ \E username \in UsernameInputs, password \in PasswordInputs :
         LET out == LoginOutcome(username, password, secrets) IN
         /\ logged_in' = out.logged_in
         /\ errors_shown' = out.errors
         /\ log' = out.log
         /\ event' = Event("login", username, password)
    /\ notices' = <<>>
    /\ requests' = <<>>
    /\ responses' = <<>>
    /\ download' = FALSE
    /\ UNCHANGED <<secrets, selected_endpoint_name, device_serialid,
                   start_date, end_date, granularity>>

\* the Logout button: the callback resets the flag, then the script reruns
logout ==
    /\ MainAppRendered
    /\ logged_in' = FALSE
    /\ DefaultForm
    /\ ClearPage
    /\ event' = Event("logout", "", "")
    /\ UNCHANGED secrets

\* another endpoint is chosen in the sidebar
SelectEndpoint ==
    /\ MainAppRendered
    /\ \E name \in EndpointNames :
         LET keep_dates == /\ "dates" \in endpoints[name].params
                           /\ "dates" \in endpoints[selected_endpoint_name].params
             start == IF keep_dates THEN start_date ELSE Today
             end == IF keep_dates THEN end_date ELSE Today
         IN /\ selected_endpoint_name' = name
            /\ device_serialid' =
                 IF DeviceLabel(name) = DeviceLabel(selected_endpoint_name)
                 THEN device_serialid ELSE DefaultDeviceId
            /\ start_date' = start
            /\ end_date' = end
            /\ granularity' = NextGranularity(name, start, end)
    /\ ClearPage
    /\ event' = Event("edit", "", "")
    /\ UNCHANGED <<secrets, logged_in>>

\* the device id box is edited
EditDeviceId ==
    /\ MainAppRendered
    /\ "device_serialid" \in endpoints[selected_endpoint_name].params
    /\ \E device \in DeviceIds : device_serialid' = device
    /\ ClearPage
    /\ event' = Event("edit", "", "")
    /\ UNCHANGED <<secrets, logged_in, selected_endpoint_name, start_date,
                   end_date, granularity>>

\* a start date is picked
PickStartDate ==
    /\ MainAppRendered
    /\ "dates" \in endpoints[selected_endpoint_name].params
    /\ \E date \in StartDates :
         /\ start_date' = date
         /\ granularity' =
              NextGranularity(selected_endpoint_name, date, end_date)
    /\ ClearPage
    /\ event' = Event("edit", "", "")
    /\ UNCHANGED <<secrets, logged_in, selected_endpoint_name,
                   device_serialid, end_date>>

\* an end date is picked
PickEndDate ==
    /\ MainAppRendered
    /\ "dates" \in endpoints[selected_endpoint_name].params
    /\ \E date \in EndDates :
         /\ end_date' = date
         /\ granularity' =
              NextGranularity(selected_endpoint_name, start_date, date)
    /\ ClearPage
    /\ event' = Event("edit", "", "")
    /\ UNCHANGED <<secrets, logged_in, selected_endpoint_name,
                   device_serialid, start_date>>

\* a granularity is chosen among the options offered
SelectGranularity ==
    /\ MainAppRendered
    /\ GranularityRendered(selected_endpoint_name)
    /\ \E choice \in Range(CurrentOptions) : granularity' = choice
    /\ ClearPage
    /\ event' = Event("edit", "", "")
    /\ UNCHANGED <<secrets, logged_in, selected_endpoint_name,
                   device_serialid, start_date, end_date>>

\* the fetch button is clicked
FetchClick ==
    /\ MainAppRendered
    /\ \E outcome \in Outcomes :
         LET page == FetchPage(secrets, selected_endpoint_name,
                               device_serialid, start_date, end_date,
                               granularity, outcome)
         IN /\ errors_shown' = page.errors
            /\ log' = page.log
            /\ notices' = page.notices
            /\ requests' = page.requests
            /\ responses' = page.responses
            /\ download' = page.download
    /\ event' = Event("fetch", "", "")
    /\ UNCHANGED <<secrets, logged_in, selected_endpoint_name,
                   device_serialid, start_date, end_date, granularity>>

Next ==
    \/ LoginSubmit
    \/ logout
    \/ SelectEndpoint
    \/ EditDeviceId
    \/ PickStartDate
    \/ PickEndDate
    \/ SelectGranularity
    \/ FetchClick

Spec == Init /\ [][Next]_vars

----------------------------------------------------------------------------
(* Properties *)

\* the query map and URL the current page was built with
CurrentParams ==
    params(selected_endpoint_name, device_serialid, start_date, end_date,
           granularity)
CurrentUrl == full_url(selected_endpoint_name, device_serialid)
Selected == endpoints[selected_endpoint_name]
Is2xx(status) == 200 <= status /\ status < 300

\* C1: a GET request is sent, and a download is offered, only in a state
\* whose session flag is true: never before a successful login, never after
\* a logout until another login succeeds.
C1_FetchOnlyWhenLoggedIn ==
    (requests # <<>> \/ responses # <<>> \/ download) => logged_in

C1_Witness ==
    /\ logged_in
    /\ event.name = "fetch"
    /\ requests # <<>>
    /\ download

\* C2: a login submission sets the flag iff the credential configuration
\* holds a usernames set and a passwords set, the username is a member of
\* the one and the password a member of the other; in every other case the
\* flag stays false and an error is shown.
C2_LoginIffMember ==
    event.name = "login" =>
        LET c == secrets.credentials
            accepted ==
                /\ "credentials" \in secrets.sections
                /\ {"usernames", "passwords"} \subseteq c.keys
                /\ c.usernames.kind = "list"
                /\ c.passwords.kind = "list"
                /\ event.username \in c.usernames.items
                /\ event.password \in c.passwords.items
        IN /\ logged_in <=> accepted
           /\ ~accepted => (~logged_in /\ errors_shown # <<>>)

\* C3: on a fetch click every required parameter of the selected endpoint
\* that is missing or empty blocks the request and yields one error message;
\* a request is sent only when every required parameter has a value.
C3_MissingRequiredBlocksFetch ==
    event.name = "fetch" =>
        LET required == Selected.required_params
            value(param) ==
                IF param = "device_serialid" THEN device_serialid
                ELSE IF param \in DOMAIN CurrentParams
                THEN CurrentParams[param] ELSE ""
            missing == {i \in DOMAIN required : value(required[i]) = ""}
        IN /\ missing # {} =>
                /\ requests = <<>>
                /\ Len(errors_shown) = Cardinality(missing)
                /\ \A i \in DOMAIN errors_shown :
                      errors_shown[i] = MissingDeviceError
           /\ requests # <<>> => missing = {}

C3_Witness ==
    /\ event.name = "fetch"
    /\ "device_serialid" \in Range(Selected.required_params)
    /\ device_serialid = ""
    /\ errors_shown = <<MissingDeviceError>>
    /\ requests = <<>>

\* C4: for "Devices" the URL is base + path and the query map holds
\* device_serialid exactly when the device id is non-empty; for every other
\* endpoint the URL is base + path + device id, nothing added or dropped,
\* and the query map holds no device_serialid.
C4_UrlConstruction ==
    /\ IF selected_endpoint_name = "Devices"
       THEN /\ CurrentUrl = "https://v3.edgezeroapi.com/pienergy/devices"
            /\ "device_serialid" \in DOMAIN CurrentParams
                  <=> device_serialid # ""
            /\ device_serialid # "" =>
                  CurrentParams["device_serialid"] = device_serialid
       ELSE /\ CurrentUrl = "https://v3.edgezeroapi.com/pienergy"
                               \o Selected.path \o device_serialid
            /\ Len(CurrentUrl) = Len("https://v3.edgezeroapi.com/pienergy")
                                   + Len(Selected.path) + Len(device_serialid)
            /\ "device_serialid" \notin DOMAIN CurrentParams
    /\ requests # <<>> =>
          /\ requests[1].url = CurrentUrl
          /\ requests[1].params = CurrentParams

C4_Witness ==
    /\ event.name = "fetch"
    /\ requests # <<>>
    /\ selected_endpoint_name = "Events Interval"
    /\ requests[1].url =
          "https://v3.edgezeroapi.com/pienergy/events/interval/EXXXXXXXXXXXX"

\* C5: the granularity options offered depend only on the span in whole
\* days d = end_date - start_date: all five when d < 1 (an inverted range
\* included), {15m, 1h, daily} when 1 <= d <= 7, {1h, daily} when d > 7; the
\* granularity in the query map is one of those offered.
C5_GranularityOptions ==
    GranularityRendered(selected_endpoint_name) =>
        LET d == end_date - start_date
            offered == Range(CurrentOptions)
        IN /\ d < 1 => offered = {"1m", "5m", "15m", "1h", "daily"}
           /\ (1 <= d /\ d <= 7) => offered = {"15m", "1h", "daily"}
           /\ d > 7 => offered = {"1h", "daily"}
           /\ CurrentParams["granularity"] \in offered
           /\ requests # <<>> => requests[1].params["granularity"] \in offered

C5_Witness ==
    /\ GranularityRendered(selected_endpoint_name)
    /\ end_date < start_date
    /\ event.name = "fetch"
    /\ requests # <<>>
    /\ requests[1].params["granularity"] = "5m"

\* C6: starttime is the epoch second of 00:00:00 UTC on the start date (a
\* multiple of 86400), endtime that of 23:59:59 UTC on the end date (86399
\* more than a multiple of 86400); with equal dates they differ by 86399.
C6_EpochDayBounds ==
    "dates" \in Selected.params =>
        LET p == CurrentParams IN
        /\ p["starttime"] = start_date * 86400
        /\ p["starttime"] % 86400 = 0
        /\ p["endtime"] = end_date * 86400 + 86399
        /\ p["endtime"] % 86400 = 86399
        /\ start_date = end_date => p["endtime"] - p["starttime"] = 86399
        /\ start_date = 19723 => p["starttime"] = 1704067200
        /\ end_date = 19723 => p["endtime"] = 1704153599
        /\ requests # <<>> =>
              /\ requests[1].params["starttime"] = p["starttime"]
              /\ requests[1].params["endtime"] = p["endtime"]

C6_Witness ==
    /\ event.name = "fetch"
    /\ requests # <<>>
    /\ "dates" \in Selected.params
    /\ start_date = end_date
    /\ requests[1].params["endtime"] - requests[1].params["starttime"] = 86399

\* C7: a fetch offers a download iff the response has a 2xx status and its
\* JSON body is not an object with an 'error-code' key and is not empty; a
\* non-2xx response never reaches formatting, a 2xx 'error-code' body is
\* reported as an error, an empty 2xx payload as a 'no data' notice.
C7_DownloadIffGoodResponse ==
    event.name = "fetch" =>
        IF responses = <<>> THEN ~download
        ELSE LET r == responses[1]
                 json == r.body.kind # "text"
                 error_object == /\ r.body.kind = "object"
                                 /\ "error-code" \in DOMAIN r.body.fields
             IN /\ download <=>
                      (Is2xx(r.status) /\ json /\ ~error_object
                          /\ Truthy(r.body))
                /\ ~Is2xx(r.status) =>
                      (~download /\ "Data fetched successfully!" \notin Range(notices))
                /\ (Is2xx(r.status) /\ error_object) =>
                      /\ ~download
                      /\ errors_shown =
                           <<"API Error " \o r.body.fields["error-code"]
                               \o ": " \o r.body.fields["message"]>>
                /\ (Is2xx(r.status) /\ json /\ ~error_object
                       /\ ~Truthy(r.body)) =>
                      /\ ~download
                      /\ errors_shown = <<>>
                      /\ notices =
                           <<"The API returned no data for the given parameters.">>

\* C8: every error shown to the user is logged with a timestamp and every
\* error logged is shown.
C8_ErrorsLoggedAndShown ==
    /\ Len(log) = Len(errors_shown)
    /\ \A i \in DOMAIN log :
          /\ log[i].message = errors_shown[i]
          /\ log[i].timestamp # ""

\* C9: a fetch click that passed validation with no API key configured is
\* aborted with a configuration error and sends no request; a request is
\* sent only when the key is configured, and carries it as X-Api-Key.
C9_ApiKeyRequired ==
    event.name = "fetch" =>
        LET configured == /\ "edgeapi" \in secrets.sections
                          /\ "api_key" \in secrets.edgeapi.keys
            validated ==
                ~(/\ "device_serialid" \in Range(Selected.required_params)
                  /\ device_serialid = "")
        IN /\ (validated /\ ~configured) =>
                /\ requests = <<>>
                /\ errors_shown = <<"API Key not found in Streamlit secrets.">>
           /\ requests # <<>> =>
                /\ configured
                /\ requests[1].headers["X-Api-Key"] = secrets.edgeapi.api_key

C9_Witness ==
    /\ event.name = "fetch"
    /\ "edgeapi" \in secrets.sections
    /\ "api_key" \notin secrets.edgeapi.keys
    /\ errors_shown = <<"API Key not found in Streamlit secrets.">>
    /\ requests = <<>>

\* C10: for every non-2xx response, whatever its body, the user is shown
\* the HTTP status text and a second message: the body's 'message' field
\* when the body is JSON (the raw text when it has none), the raw body text
\* when it is not JSON.
C10_NonOkBodySurfaced ==
    (event.name = "fetch" /\ responses # <<>>
        /\ ~Is2xx(responses[1].status)) =>
        LET r == responses[1]
            has_message == /\ r.body.kind = "object"
                           /\ "message" \in DOMAIN r.body.fields
        IN /\ Len(errors_shown) = 2
           /\ errors_shown[1] =
                "HTTP Error: " \o HTTPErrorText(r.status, requests[1].url)
           /\ errors_shown[2] =
                "API Response: " \o
                   (IF has_message THEN r.body.fields["message"]
                    ELSE r.body.text)

====
